---- MODULE Spec2Model ----
(***************************************************************************)
(* Message store and response simulator of the Perplexity chat page        *)
(* (src/Chatbot/Agent/Perplexity/app/page.tsx, component ChatApp).         *)
(*                                                                         *)
(* Text is a sequence of one-character strings, so that toLowerCase, trim  *)
(* and String.prototype.includes are computed character by character.      *)
(* Time is the millisecond clock read by Date.now() and new Date().        *)
(***************************************************************************)
EXTENDS Integers, Sequences, FiniteSets, TLC

VARIABLES messages, inputValue, isTyping, storage, inflight, clock, phase, last

vars == <<messages, inputValue, isTyping, storage, inflight, clock, phase, last>>

(* ------------------------------ bounds --------------------------------- *)

\* longest message sequence a submission may start from
MaxMsgs == 2
\* millisecond ticks explored after each timer-aligned instant
MaxTick == 1
\* number of timer periods after which no further submission is explored
MaxRounds == 2

(* ------------------------------- text ---------------------------------- *)

UpperCase == <<"A","B","C","D","E","F","G","H","I","J","K","L","M",
               "N","O","P","Q","R","S","T","U","V","W","X","Y","Z">>
LowerCase == <<"a","b","c","d","e","f","g","h","i","j","k","l","m",
               "n","o","p","q","r","s","t","u","v","w","x","y","z">>

\* one character of String.prototype.toLowerCase
LowerChar(c) ==
    IF \E i \in 1..26 : UpperCase[i] = c
    THEN LowerCase[CHOOSE i \in 1..26 : UpperCase[i] = c]
    ELSE c

ToLowerCase(s) == [i \in 1..Len(s) |-> LowerChar(s[i])]

\* String.prototype.includes: k occurs in s as a contiguous substring
Includes(s, k) ==
    \E i \in 0..(Len(s) - Len(k)) : SubSeq(s, i + 1, i + Len(k)) = k

IsSpace(c) == c = " "

RECURSIVE TrimStart(_)
TrimStart(s) ==
    IF s # <<>> /\ IsSpace(Head(s)) THEN TrimStart(Tail(s)) ELSE s

RECURSIVE TrimEnd(_)
TrimEnd(s) ==
    IF s # <<>> /\ IsSpace(s[Len(s)]) THEN TrimEnd(SubSeq(s, 1, Len(s) - 1)) ELSE s

\* String.prototype.trim
Trim(s) == TrimEnd(TrimStart(s))

(* ---------------------------- keyword lists ---------------------------- *)

K_code == <<"c", "o", "d", "e">>
K_programming == <<"p", "r", "o", "g", "r", "a", "m", "m", "i", "n", "g">>
K_javascript == <<"j", "a", "v", "a", "s", "c", "r", "i", "p", "t">>
K_python == <<"p", "y", "t", "h", "o", "n">>
K_react == <<"r", "e", "a", "c", "t">>
K_css == <<"c", "s", "s">>
K_html == <<"h", "t", "m", "l">>
K_math == <<"m", "a", "t", "h">>
K_calculate == <<"c", "a", "l", "c", "u", "l", "a", "t", "e">>
K_formula == <<"f", "o", "r", "m", "u", "l", "a">>
K_science == <<"s", "c", "i", "e", "n", "c", "e">>
K_physics == <<"p", "h", "y", "s", "i", "c", "s">>
K_chemistry == <<"c", "h", "e", "m", "i", "s", "t", "r", "y">>
K_business == <<"b", "u", "s", "i", "n", "e", "s", "s">>
K_strategy == <<"s", "t", "r", "a", "t", "e", "g", "y">>
K_marketing == <<"m", "a", "r", "k", "e", "t", "i", "n", "g">>
K_startup == <<"s", "t", "a", "r", "t", "u", "p">>
K_company == <<"c", "o", "m", "p", "a", "n", "y">>
K_ai == <<"a", "i">>
K_artificial_intelligence == <<"a", "r", "t", "i", "f", "i", "c", "i", "a", "l", " ", "i", "n", "t", "e", "l", "l", "i", "g", "e", "n", "c", "e">>
K_machine_learning == <<"m", "a", "c", "h", "i", "n", "e", " ", "l", "e", "a", "r", "n", "i", "n", "g">>
K_technology == <<"t", "e", "c", "h", "n", "o", "l", "o", "g", "y">>
K_future == <<"f", "u", "t", "u", "r", "e">>
K_explain == <<"e", "x", "p", "l", "a", "i", "n">>
K_what_is == <<"w", "h", "a", "t", " ", "i", "s">>
K_how_does == <<"h", "o", "w", " ", "d", "o", "e", "s">>
K_why == <<"w", "h", "y">>
K_design == <<"d", "e", "s", "i", "g", "n">>
K_creative == <<"c", "r", "e", "a", "t", "i", "v", "e">>
K_art == <<"a", "r", "t">>
K_ui == <<"u", "i">>
K_ux == <<"u", "x">>

(* ------------------------------ inputs --------------------------------- *)

T_Blank == <<" ", " ">>
T_Hi == <<" ", "h", "i", " ">>
T_Why == <<"W", "h", "y">>
T_ExplainCpu == <<"E", "x", "p", "l", "a", "i", "n", " ", "h", "o", "w", " ", "d", "o", "e", "s", " ", "a", " ", "C", "P", "U", " ", "c", "a", "c", "h", "e", " ", "w", "o", "r", "k">>
T_ExplainMathCode == <<"e", "x", "p", "l", "a", "i", "n", " ", "t", "h", "e", " ", "m", "a", "t", "h", " ", "b", "e", "h", "i", "n", "d", " ", "t", "h", "i", "s", " ", "c", "o", "d", "e">>

SimTexts ==
    { <<"C", "o", "d", "e">>,
      <<"m", "y", " ", "P", "R", "O", "G", "R", "A", "M", "M", "I", "N", "G">>,
      <<"J", "a", "v", "a", "S", "c", "r", "i", "p", "t">>,
      <<"p", "y", "t", "h", "o", "n">>,
      <<"R", "e", "a", "c", "t">>,
      <<"C", "S", "S">>,
      <<"h", "t", "m", "l">>,
      <<"M", "a", "t", "h">>,
      <<"c", "a", "l", "c", "u", "l", "a", "t", "e">>,
      <<"F", "o", "r", "m", "u", "l", "a">>,
      <<"s", "c", "i", "e", "n", "c", "e">>,
      <<"P", "h", "y", "s", "i", "c", "s">>,
      <<"c", "h", "e", "m", "i", "s", "t", "r", "y">>,
      <<"B", "u", "s", "i", "n", "e", "s", "s">>,
      <<"s", "t", "r", "a", "t", "e", "g", "y">>,
      <<"M", "a", "r", "k", "e", "t", "i", "n", "g">>,
      <<"s", "t", "a", "r", "t", "u", "p">>,
      <<"C", "o", "m", "p", "a", "n", "y">>,
      <<"A", "I">>,
      <<"a", "r", "t", "i", "f", "i", "c", "i", "a", "l", " ", "i", "n", "t", "e", "l", "l", "i", "g", "e", "n", "c", "e">>,
      <<"M", "a", "c", "h", "i", "n", "e", " ", "L", "e", "a", "r", "n", "i", "n", "g">>,
      <<"t", "e", "c", "h", "n", "o", "l", "o", "g", "y">>,
      <<"F", "u", "t", "u", "r", "e">>,
      <<"e", "x", "p", "l", "a", "i", "n">>,
      <<"W", "h", "a", "t", " ", "i", "s", " ", "l", "o", "v", "e">>,
      <<"h", "o", "w", " ", "d", "o", "e", "s", " ", "i", "t", " ", "g", "o">>,
      <<"W", "h", "a", "t", " ", "i", "s", " ", "x">>,
      <<"d", "e", "s", "i", "g", "n">>,
      <<"C", "r", "e", "a", "t", "i", "v", "e">>,
      <<"A", "r", "t">>,
      <<"U", "I">>,
      <<"u", "x">>,
      <<"h", "e", "l", "l", "o">>,
      <<"b", "u", "i", "l", "d">>,
      <<"s", "a", "i", "d", " ", "s", "o">>,
      <<"s", "t", "a", "r", "t", " ", "u", "p">>,
      <<"W", "h", "y", " ", "a", "r", "t">>,
      <<"m", "a", "t", "h", " ", "c", "o", "m", "p", "a", "n", "y">>,
      <<"f", "u", "t", "u", "r", "e", " ", "d", "e", "s", "i", "g", "n">>,
      <<" ", " ", "w", "h", "y", " ", " ">>,
      <<"H", "o", "w", " ", "D", "o", "e", "s", " ", "U", "X">> }

MainTexts == { T_Blank, T_Hi, T_Why }

(* --------------------------- response simulator ------------------------ *)

\* setTimeout(resolve, 800 + Math.random() * 1500)
BaseDelay == 800
RandomRange == 1500

\* the shortest and the longest delay the timer can be armed with
Delays == { BaseDelay, BaseDelay + RandomRange - 1 }

\* message content: the raw text (tpl = "verbatim"), or a category's fixed
\* markdown template with the user's original text embedded in it
Verbatim(text) == [tpl |-> "verbatim", text |-> text]
Template(category, userMessage) == [tpl |-> category, text |-> userMessage]

\* the keyword test of each if-statement, on the lowercased text
MatchesProgramming(message) ==
    \/ Includes(message, K_code)
    \/ Includes(message, K_programming)
    \/ Includes(message, K_javascript)
    \/ Includes(message, K_python)
    \/ Includes(message, K_react)
    \/ Includes(message, K_css)
    \/ Includes(message, K_html)

MatchesMathScience(message) ==
    \/ Includes(message, K_math)
    \/ Includes(message, K_calculate)
    \/ Includes(message, K_formula)
    \/ Includes(message, K_science)
    \/ Includes(message, K_physics)
    \/ Includes(message, K_chemistry)

MatchesBusiness(message) ==
    \/ Includes(message, K_business)
    \/ Includes(message, K_strategy)
    \/ Includes(message, K_marketing)
    \/ Includes(message, K_startup)
    \/ Includes(message, K_company)

MatchesAITechnology(message) ==
    \/ Includes(message, K_ai)
    \/ Includes(message, K_artificial_intelligence)
    \/ Includes(message, K_machine_learning)
    \/ Includes(message, K_technology)
    \/ Includes(message, K_future)

MatchesExplanatory(message) ==
    \/ Includes(message, K_explain)
    \/ Includes(message, K_what_is)
    \/ Includes(message, K_how_does)
    \/ Includes(message, K_why)

MatchesDesign(message) ==
    \/ Includes(message, K_design)
    \/ Includes(message, K_creative)
    \/ Includes(message, K_art)
    \/ Includes(message, K_ui)
    \/ Includes(message, K_ux)

\* a simulator that tests the Math/Science keywords before the Programming ones
simulateMathFirst(userMessage) ==
    LET message == ToLowerCase(userMessage) IN
    IF MatchesMathScience(message) THEN Template("MathScience", userMessage)
    ELSE IF MatchesProgramming(message) THEN Template("Programming", userMessage)
    ELSE IF MatchesBusiness(message) THEN Template("Business", userMessage)
    ELSE IF MatchesAITechnology(message) THEN Template("AITechnology", userMessage)
    ELSE IF MatchesExplanatory(message) THEN Template("Explanatory", userMessage)
    ELSE IF MatchesDesign(message) THEN Template("Design", userMessage)
    ELSE Template("Default", userMessage)

\* the chain of if-statements of simulateAssistantResponse, after the delay
simulateAssistantResponse(userMessage) ==
    LET message == ToLowerCase(userMessage) IN
    IF MatchesProgramming(message) THEN Template("Programming", userMessage)
    ELSE IF MatchesMathScience(message) THEN Template("MathScience", userMessage)
    ELSE IF MatchesBusiness(message) THEN Template("Business", userMessage)
    ELSE IF MatchesAITechnology(message) THEN Template("AITechnology", userMessage)
    ELSE IF MatchesExplanatory(message) THEN Template("Explanatory", userMessage)
    ELSE IF MatchesDesign(message) THEN Template("Design", userMessage)
    ELSE Template("Default", userMessage)

(* ------------------------------ persistence ---------------------------- *)

\* a Date: a time value in milliseconds, or an Invalid Date
DateOf(ms) == [valid |-> TRUE, ms |-> ms]
InvalidDate == [valid |-> FALSE, ms |-> 0]

\* Date.prototype.toJSON as called by JSON.stringify: the ISO-8601 text of a
\* valid date (millisecond precision), null for an Invalid Date
ToJSON(d) == IF d.valid THEN [t |-> "iso", ms |-> d.ms] ELSE [t |-> "null", ms |-> 0]

\* new Date(v) for a parsed JSON value v: an ISO text gives its time value,
\* null gives the epoch, a missing field (undefined) gives an Invalid Date
NewDate(v) ==
    CASE v.t = "iso" -> DateOf(v.ms)
      [] v.t = "null" -> DateOf(0)
      [] OTHER -> InvalidDate

\* JSON.stringify(messages)
Stringify(msgs) ==
    [i \in 1..Len(msgs) |->
        [id |-> msgs[i].id, role |-> msgs[i].role, content |-> msgs[i].content,
         timestamp |-> ToJSON(msgs[i].timestamp)]]

\* ({ ...msg, timestamp: new Date(msg.timestamp) })
Revive(msg) ==
    [id |-> msg.id, role |-> msg.role, content |-> msg.content,
     timestamp |-> NewDate(msg.timestamp)]

\* the values localStorage can hold under "perplexity-chat-history"
Absent == [kind |-> "absent", items |-> <<>>]
EmptyString == [kind |-> "empty", items |-> <<>>]
Unparseable == [kind |-> "unparseable", items |-> <<>>]
NonArray == [kind |-> "nonarray", items |-> <<>>]
ArrayOf(items) == [kind |-> "array", items |-> items]

\* the load effect: getItem, JSON.parse, map; threw = an exception left it
LoadEffect(st) ==
    CASE st.kind \in {"absent", "empty"} -> [threw |-> FALSE, set |-> FALSE, msgs |-> <<>>]
      [] st.kind \in {"unparseable", "nonarray"} -> [threw |-> TRUE, set |-> FALSE, msgs |-> <<>>]
      [] OTHER -> [threw |-> FALSE, set |-> TRUE,
                   msgs |-> [i \in 1..Len(st.items) |-> Revive(st.items[i])]]

\* a save effect that writes the empty sequence too
SaveEffectAlways(msgs, st) == ArrayOf(Stringify(msgs))

\* the save effect, run after a render in which messages changed
SaveEffect(msgs, st) ==
    IF Len(msgs) > 0 THEN ArrayOf(Stringify(msgs)) ELSE st

\* history left by an earlier session, and an array whose objects lack a timestamp
EarlierHistory ==
    << [id |-> 0, role |-> "user", content |-> Verbatim(Trim(T_Hi)),
        timestamp |-> [t |-> "iso", ms |-> 0]] >>
NoTimestampItems ==
    << [id |-> 0, role |-> "user", content |-> Verbatim(Trim(T_Hi)),
        timestamp |-> [t |-> "undef", ms |-> 0]] >>

InitialStorage ==
    { Absent, EmptyString, Unparseable, NonArray,
      ArrayOf(<<>>), ArrayOf(EarlierHistory), ArrayOf(NoTimestampItems) }

(* ------------------------------ the page ------------------------------- *)

\* an input field that is never disabled
InputNeverDisabled == FALSE

\* <Input disabled={isTyping}>
InputDisabled == isTyping

\* <Button disabled={!inputValue.trim() || isTyping}>
ButtonDisabled == Trim(inputValue) = <<>> \/ isTyping

StartClock == 1

\* the operation that ran last, with what it found: a response in flight
\* (busy) and a blank input field (blank)
Did(op) == [op |-> op, busy |-> isTyping, blank |-> Trim(inputValue) = <<>>]

Init ==
    /\ messages = <<>>
    /\ inputValue = <<>>
    /\ isTyping = FALSE
    /\ inflight = <<>>
    /\ storage \in InitialStorage
    /\ clock = StartClock
    /\ phase = "constructed"
    /\ last = [op |-> "init", busy |-> FALSE, blank |-> TRUE]

\* first render: the load effect, then the save effect of the re-render
Mount ==
    /\ phase = "constructed"
    /\ LET r == LoadEffect(storage) IN
       IF r.threw
       THEN /\ phase' = "crashed"
            /\ last' = Did("crash")
            /\ UNCHANGED <<messages, storage>>
       ELSE /\ phase' = "mounted"
            /\ last' = Did("mount")
            /\ messages' = r.msgs
            /\ storage' = IF r.set THEN SaveEffect(r.msgs, storage) ELSE storage
    /\ UNCHANGED <<inputValue, isTyping, inflight, clock>>

\* the page is loaded again: a fresh instance over the same localStorage
Reload ==
    /\ phase \in {"mounted", "crashed"}
    /\ phase' = "constructed"
    /\ messages' = <<>>
    /\ inputValue' = <<>>
    /\ isTyping' = FALSE
    /\ inflight' = <<>>
    /\ last' = Did("reload")
    /\ UNCHANGED <<storage, clock>>

\* onChange={(e) => setInputValue(e.target.value)}
OnChange(text) ==
    /\ phase = "mounted"
    /\ ~InputDisabled
    /\ Len(messages) <= MaxMsgs
    /\ clock < MaxRounds * BaseDelay
    /\ inputValue' = text
    /\ last' = Did("type")
    /\ UNCHANGED <<messages, isTyping, storage, inflight, clock, phase>>

\* an emptiness test that forgets to trim
IsBlankNoTrim(text) == text = <<>>

\* if (!inputValue.trim()) return
IsBlank(text) == Trim(text) = <<>>

\* a handler that hands the untrimmed input to the simulator
handleSendMessageUntrimmed(delay) ==
    IF IsBlank(inputValue)
    THEN UNCHANGED <<messages, inputValue, isTyping, storage, inflight>>
    ELSE LET userMessage == [id |-> clock, role |-> "user",
                             content |-> Verbatim(Trim(inputValue)),
                             timestamp |-> DateOf(clock)]
         IN /\ messages' = Append(messages, userMessage)
            /\ inputValue' = <<>>
            /\ isTyping' = TRUE
            /\ inflight' = Append(inflight, [text |-> inputValue, due |-> clock + delay])
            /\ storage' = SaveEffect(messages', storage)

handleSendMessage(delay) ==
    IF IsBlank(inputValue)
    THEN UNCHANGED <<messages, inputValue, isTyping, storage, inflight>>
    ELSE LET userMessage == [id |-> clock, role |-> "user",
                             content |-> Verbatim(Trim(inputValue)),
                             timestamp |-> DateOf(clock)]
         IN /\ messages' = Append(messages, userMessage)
            /\ inputValue' = <<>>
            /\ isTyping' = TRUE
            /\ inflight' = Append(inflight, [text |-> Trim(inputValue), due |-> clock + delay])
            /\ storage' = SaveEffect(messages', storage)

\* Enter in the input field: handleKeyPress, unless the field is disabled
PressEnter ==
    /\ phase = "mounted"
    /\ last' = Did("enter")
    /\ UNCHANGED <<clock, phase>>
    /\ IF InputDisabled
       THEN UNCHANGED <<messages, inputValue, isTyping, storage, inflight>>
       ELSE \E delay \in Delays : handleSendMessage(delay)

\* a click on the send button: handleSendMessage, unless the button is disabled
ClickSend ==
    /\ phase = "mounted"
    /\ last' = Did("click")
    /\ UNCHANGED <<clock, phase>>
    /\ IF ButtonDisabled
       THEN UNCHANGED <<messages, inputValue, isTyping, storage, inflight>>
       ELSE \E delay \in Delays : handleSendMessage(delay)

\* the in-flight simulations whose timer is the next to fire
NextDue == { i \in 1..Len(inflight) : \A j \in 1..Len(inflight) : inflight[i].due <= inflight[j].due }

Remove(s, i) == SubSeq(s, 1, i - 1) \o SubSeq(s, i + 1, Len(s))

Max(a, b) == IF a >= b THEN a ELSE b

\* the timer fires, simulateAssistantResponse returns, the try block completes
Resolve ==
    /\ phase = "mounted"
    /\ \E i \in NextDue :
        LET now == Max(clock, inflight[i].due)
            assistantMessage == [id |-> now + 1, role |-> "assistant",
                                 content |-> simulateAssistantResponse(inflight[i].text),
                                 timestamp |-> DateOf(now)]
        IN /\ clock' = now
           /\ inflight' = Remove(inflight, i)
           /\ messages' = Append(messages, assistantMessage)
           /\ storage' = SaveEffect(messages', storage)
    /\ isTyping' = FALSE
    /\ last' = Did("resolve")
    /\ UNCHANGED <<inputValue, phase>>

\* a failure path without the finally block
ThrowNoFinally ==
    /\ phase = "mounted"
    /\ \E i \in NextDue :
        /\ clock' = Max(clock, inflight[i].due)
        /\ inflight' = Remove(inflight, i)
    /\ last' = Did("throw")
    /\ UNCHANGED <<messages, inputValue, isTyping, storage, phase>>

\* a failure path that retries: the simulation is armed again
ThrowRetries ==
    /\ phase = "mounted"
    /\ \E i \in NextDue :
        /\ clock' = Max(clock, inflight[i].due)
        /\ inflight' = [inflight EXCEPT ![i].due = clock' + BaseDelay]
    /\ isTyping' = FALSE
    /\ last' = Did("throw")
    /\ UNCHANGED <<messages, inputValue, storage, phase>>

\* the timer fires and the simulator throws: catch logs, finally runs
Throw ==
    /\ phase = "mounted"
    /\ \E i \in NextDue :
        /\ clock' = Max(clock, inflight[i].due)
        /\ inflight' = Remove(inflight, i)
    /\ isTyping' = FALSE
    /\ last' = Did("throw")
    /\ UNCHANGED <<messages, inputValue, storage, phase>>

TimerFires == Resolve \/ Throw

\* a clear that forgets localStorage.removeItem
clearChatKeepsKey ==
    /\ phase = "mounted"
    /\ messages' = <<>>
    /\ storage' = SaveEffect(messages', storage)
    /\ last' = Did("clear")
    /\ UNCHANGED <<inputValue, isTyping, inflight, clock, phase>>

\* clearChat, and the save effect of the render that follows it
clearChat ==
    /\ phase = "mounted"
    /\ messages' = <<>>
    /\ storage' = SaveEffect(messages', Absent)
    /\ last' = Did("clear")
    /\ UNCHANGED <<inputValue, isTyping, inflight, clock, phase>>

\* a millisecond passes
Tick ==
    /\ clock % BaseDelay <= MaxTick
    /\ clock' = clock + 1
    /\ last' = Did("tick")
    /\ UNCHANGED <<messages, inputValue, isTyping, storage, inflight, phase>>

Next ==
    \/ Mount
    \/ Reload
    \/ \E text \in MainTexts : OnChange(text)
    \/ PressEnter
    \/ ClickSend
    \/ Resolve
    \/ Throw
    \/ clearChat
    \/ Tick

Spec == Init /\ [][Next]_vars

(* the same page over a shorter list of inputs and stored values, with the *)
(* timer armed by setTimeout certain to fire                               *)

LiveTexts == { T_Blank, T_Why }

LiveInit == Init /\ storage \in { Absent, ArrayOf(EarlierHistory) }

LiveNext ==
    \/ Mount
    \/ Reload
    \/ \E text \in LiveTexts : OnChange(text)
    \/ PressEnter
    \/ ClickSend
    \/ Resolve
    \/ Throw
    \/ clearChat
    \/ Tick

FairSpec == LiveInit /\ [][LiveNext]_vars /\ WF_vars(TimerFires)

(* the simulator on its own: one typed text, submitted and answered *)

SimInit ==
    /\ messages = <<>>
    /\ inputValue \in SimTexts \cup { T_ExplainCpu, T_ExplainMathCode }
    /\ isTyping = FALSE
    /\ inflight = <<>>
    /\ storage = Absent
    /\ clock = StartClock
    /\ phase = "mounted"
    /\ last = [op |-> "type", busy |-> FALSE, blank |-> FALSE]

SimNext == PressEnter \/ ClickSend \/ Resolve

SimSpec == SimInit /\ [][SimNext]_vars


(* ------------------------------ properties ----------------------------- *)

Submit == PressEnter \/ ClickSend

\* C1: while isTyping is true a submit attempt leaves the length of the
\* message sequence unchanged and starts no simulation, and at most one
\* simulated response is in flight at any time.
C1_NoSecondSubmission ==
    /\ [](Len(inflight) <= 1)
    /\ [][(Submit /\ isTyping) =>
            (Len(messages') = Len(messages) /\ inflight' = inflight)]_vars

\* a submit attempt was made while a response was in flight
C1_Witness ==
    /\ last.op \in {"enter", "click"}
    /\ last.busy
    /\ Len(inflight) = 1

\* the stored values that are a serialized array of messages
WellFormed(st) ==
    /\ st.kind = "array"
    /\ \A i \in 1..Len(st.items) : st.items[i].timestamp.t = "iso"

\* C2: the mount-time load of a stored value that is not a well-formed
\* serialized message array, or of an absent key, ends with an empty message
\* sequence and raises no error.
C2_LoadFailsGracefully ==
    [][(Mount /\ ~WellFormed(storage)) =>
            (messages' = <<>> /\ phase' = "mounted")]_vars

Appended == (Submit \/ Resolve) /\ Len(messages') = Len(messages) + 1

\* C3: after every append and its save effect, storage holds the whole
\* in-memory sequence and a load on a fresh instance reconstructs a sequence
\* identical to it, timestamps included.
C3_RoundTrip ==
    [][Appended =>
            /\ storage' = ArrayOf(Stringify(messages'))
            /\ ~LoadEffect(storage').threw
            /\ LoadEffect(storage').msgs = messages']_vars

\* C4: once clearChat and its save effect have run the persisted key is
\* absent, it stays absent until the next append, and a load on a fresh
\* instance observes no history.
C4_ClearThenLoadEmpty ==
    [][/\ clearChat =>
            /\ storage' = Absent
            /\ ~LoadEffect(storage').threw
            /\ LoadEffect(storage').msgs = <<>>
       /\ (storage = Absent /\ messages = <<>> /\ messages' = <<>>) => storage' = Absent]_vars

\* the history was cleared while a response was in flight
C4_Witness ==
    /\ last.op = "clear"
    /\ last.busy
    /\ storage = Absent
    /\ messages = <<>>

\* C5: submitting "Explain how does a CPU cache work" appends one user
\* message with exactly that text, and the assistant message that answers it
\* is the Explanatory template embedding the text.
C5_ExplainScenario ==
    \A i \in 1..Len(messages) :
        messages[i].content.text = T_ExplainCpu =>
            messages[i].content =
                IF messages[i].role = "user"
                THEN Verbatim(T_ExplainCpu)
                ELSE Template("Explanatory", T_ExplainCpu)

\* the priority order of the categories, each with its keywords
CategoryTable ==
    << [name |-> "Programming",
        keywords |-> {K_code, K_programming, K_javascript, K_python, K_react, K_css, K_html}],
       [name |-> "MathScience",
        keywords |-> {K_math, K_calculate, K_formula, K_science, K_physics, K_chemistry}],
       [name |-> "Business",
        keywords |-> {K_business, K_strategy, K_marketing, K_startup, K_company}],
       [name |-> "AITechnology",
        keywords |-> {K_ai, K_artificial_intelligence, K_machine_learning, K_technology, K_future}],
       [name |-> "Explanatory",
        keywords |-> {K_explain, K_what_is, K_how_does, K_why}],
       [name |-> "Design",
        keywords |-> {K_design, K_creative, K_art, K_ui, K_ux}] >>

\* the categories with a keyword occurring in the lowercased text
Matching(text) ==
    { c \in 1..Len(CategoryTable) :
        \E k \in CategoryTable[c].keywords : Includes(ToLowerCase(text), k) }

FirstMatch(text) ==
    IF Matching(text) = {}
    THEN "Default"
    ELSE CategoryTable[CHOOSE c \in Matching(text) : \A d \in Matching(text) : c <= d].name

\* C6: every assistant message is the template of the lowest-numbered
\* category with a keyword occurring in the lowercased text, the Default
\* template exactly when none occurs; "explain the math behind this code"
\* gets the Programming template.
C6_FirstMatchWins ==
    \A i \in 1..Len(messages) :
        messages[i].role = "assistant" =>
            /\ messages[i].content = Template(FirstMatch(messages[i].content.text), messages[i].content.text)
            /\ messages[i].content.text = T_ExplainMathCode => messages[i].content.tpl = "Programming"

\* the text with a Math and a Programming keyword has been answered
C6_Witness ==
    /\ Len(messages) = 2
    /\ messages[2].role = "assistant"
    /\ messages[2].content = Template("Programming", T_ExplainMathCode)

\* C7: a submit attempt whose trimmed input is empty leaves the message
\* sequence, the in-flight simulations, isTyping and storage unchanged.
C7_BlankRejected ==
    [][(Submit /\ Trim(inputValue) = <<>>) =>
            UNCHANGED <<messages, inflight, isTyping, storage>>]_vars

\* whitespace was submitted with the field enabled and nothing in flight
C7_Witness ==
    /\ last.op \in {"enter", "click"}
    /\ last.blank
    /\ ~last.busy
    /\ inputValue = T_Blank

\* C8: every accepted submission is followed by a state in which isTyping
\* is false, whether the simulator resolves or throws, and a simulator that
\* resolves has its assistant message appended, cleared history or not.
C8_ReturnsToIdle ==
    /\ isTyping ~> ~isTyping
    /\ [][Resolve =>
            /\ Len(messages') = Len(messages) + 1
            /\ messages'[Len(messages')].role = "assistant"
            /\ \E i \in 1..Len(inflight) :
                 messages'[Len(messages')].content.text = inflight[i].text]_vars

\* a response resolved after the history was cleared under it
C8_Witness ==
    /\ last.op = "resolve"
    /\ ~isTyping
    /\ Len(messages) = 1
    /\ messages[1].role = "assistant"

\* C9 as stated: clearChat empties the sequence, sets isTyping false and
\* removes the persisted key.
C9_ClearResetsAll ==
    [][clearChat =>
            (messages' = <<>> /\ isTyping' = FALSE /\ storage' = Absent)]_vars

\* C9 amended: clearChat empties the sequence and removes the persisted key;
\* isTyping and the in-flight simulation are left as they were.
C9_ClearResetsStore ==
    [][clearChat =>
            /\ messages' = <<>>
            /\ storage' = Absent
            /\ isTyping' = isTyping
            /\ inflight' = inflight]_vars

\* a clear with a response in flight: the flag is still set
C9_Witness ==
    /\ last.op = "clear"
    /\ isTyping
    /\ Len(inflight) = 1

\* C10 as stated: when the simulator throws no assistant message is
\* appended, the sequence keeps the user message of the submission as its
\* last element, isTyping is cleared and no retry is started.
C10_ThrowKeepsUserMessage ==
    [][Throw =>
            /\ messages' = messages
            /\ messages' # <<>>
            /\ messages'[Len(messages')].role = "user"
            /\ \E i \in 1..Len(inflight) :
                 messages'[Len(messages')].content = Verbatim(inflight[i].text)
            /\ isTyping' = FALSE
            /\ inflight' = <<>>]_vars

\* C10 amended: when the simulator throws the sequence and storage are left
\* unchanged, isTyping is cleared and no simulation remains in flight.
C10_ThrowRecovered ==
    [][Throw =>
            /\ messages' = messages
            /\ storage' = storage
            /\ isTyping' = FALSE
            /\ inflight' = <<>>]_vars

\* the simulator threw and the user message is still the last element
C10_Witness ==
    /\ last.op = "throw"
    /\ ~isTyping
    /\ inflight = <<>>
    /\ messages # <<>>
    /\ messages[Len(messages)].role = "user"

\* C11: all messages of the sequence have pairwise distinct ids, and the ids
\* are strictly increasing along the sequence (an id is the decimal text of
\* a clock reading, compared here as the number it denotes).
C11_IdsStrictlyIncreasing ==
    \A i \in 1..Len(messages) : \A j \in 1..Len(messages) :
        i < j => messages[i].id < messages[j].id

\* the message at position i is the reply to the user message before it
AnswersPrevious(i) ==
    /\ i > 1
    /\ messages[i - 1].role = "user"
    /\ messages[i].content = simulateAssistantResponse(messages[i - 1].content.text)

\* C12 as stated: every assistant message is immediately preceded by the
\* user message it answers, so the sequence never starts with an assistant
\* message and never holds two adjacent assistant messages.
C12_EveryReplyPaired ==
    \A i \in 1..Len(messages) :
        messages[i].role = "assistant" => AnswersPrevious(i)

StartsWithAssistant(msgs) == msgs # <<>> /\ msgs[1].role = "assistant"

\* C12 amended: every assistant message after the first position is
\* immediately preceded by the user message it answers; an assistant message
\* comes to stand first only by resolving into a history that clearChat
\* emptied while it was in flight, or by a later load of that history.
C12_ReplyPairedUnlessCleared ==
    /\ [](\A i \in 2..Len(messages) :
            messages[i].role = "assistant" => AnswersPrevious(i))
    /\ [][(StartsWithAssistant(messages') /\ ~StartsWithAssistant(messages)) =>
            \/ Resolve /\ messages = <<>>
            \/ Mount /\ StartsWithAssistant(storage.items)]_vars

\* a reply to a cleared submission stands first, and a later reply follows
\* its own user message
C12_Witness ==
    /\ Len(messages) = 3
    /\ messages[1].role = "assistant"
    /\ messages[2].role = "user"
    /\ messages[3].role = "assistant"
    /\ messages[3].content = simulateAssistantResponse(messages[2].content.text)

====
